---- MODULE Spec2Model ----
(***************************************************************************)
(* A model of shellsage's ErrorInterceptor                                 *)
(* (src/src/shellsage/error_interceptor.py).                               *)
(*                                                                         *)
(* Text is a sequence of one-character strings, so that split, strip,      *)
(* startswith, the substring tests and the regular expressions are         *)
(* computed the way Python computes them.  A dict is a function from its   *)
(* keys, an optional value (None or a value) a sequence of length 0 or 1.  *)
(* An operator that models a call which can raise returns a record with a  *)
(* field "raised".  A local of the code that is read more than once is a   *)
(* parameter of the operator that models the rest of the function.         *)
(***************************************************************************)
EXTENDS Integers, Sequences, FiniteSets, TLC

VARIABLES
    command_history,  \* self.command_history, a deque(maxlen=20)
    last_command,     \* self.last_command
    context_cache,    \* self.context_cache
    call,             \* the last entry-point call and what its surroundings returned
    submitted,        \* the bundles handed to llm_handler.get_error_solution by that call
    rendered,         \* what that call wrote to the terminal, in order
    outcome,          \* how that call ended: return, SystemExit(code) or an exception
    submits,          \* number of entry-point calls so far
    response,         \* the text handed to _show_analysis
    parsed,           \* the thoughts and components _show_analysis extracted
    raw,              \* a result's stderr text handed to _get_full_error_output
    clean             \* the successive outputs of _get_full_error_output

vars == <<command_history, last_command, context_cache, call, submitted,
          rendered, outcome, submits, response, parsed, raw, clean>>

(***************************************************************************)
(* Bounds of the model.                                                    *)
(***************************************************************************)
MaxSubmits == 2
MaxTextLen == 6
MaxThoughts == 2

(***************************************************************************)
(* Program constants.                                                      *)
(***************************************************************************)
HistoryMaxLen == 20
MaxRelevantFiles == 3
ManLimit == 10
ProcessTreeLines == 10
NetworkLines == 5
MaxFiles == 10
MaxDirs == 5

(***************************************************************************)
(* Python string primitives.                                               *)
(***************************************************************************)
\* characters written by name: escape (0x1B), backslash, double quote, backtick
ESC == "ESC"
BSL == "BSL"
DQT == "DQT"
BTK == "BTK"
NL == "\n"

Whitespace == {" ", "\t", NL, "\r"}

Last(s) == s[Len(s)]

Range(s) == {s[i] : i \in 1..Len(s)}

\* s[i:] for a 1-based i
DropTo(s, i) == SubSeq(s, i, Len(s))

\* s[:-1]
AllButLast(s) == SubSeq(s, 1, Len(s) - 1)

RECURSIVE LStrip(_)
LStrip(s) ==
    IF s # <<>> /\ Head(s) \in Whitespace THEN LStrip(Tail(s)) ELSE s

RECURSIVE RStrip(_)
RStrip(s) ==
    IF s # <<>> /\ Last(s) \in Whitespace THEN RStrip(AllButLast(s)) ELSE s

\* str.strip()
Strip(s) == RStrip(LStrip(s))

\* str.startswith(p)
StartsWith(s, p) == Len(s) >= Len(p) /\ SubSeq(s, 1, Len(p)) = p

\* whether p occurs in s at position i
MatchAt(s, p, i) == i + Len(p) - 1 <= Len(s) /\ SubSeq(s, i, i + Len(p) - 1) = p

\* str.find(p) from position i on, 1-based; 0 when p does not occur
RECURSIVE FindFrom(_, _, _)
FindFrom(s, p, i) ==
    IF i + Len(p) - 1 > Len(s) THEN 0
    ELSE IF MatchAt(s, p, i) THEN i
    ELSE FindFrom(s, p, i + 1)

Find(s, p) == FindFrom(s, p, 1)

\* p in s
Contains(s, p) == Find(s, p) # 0

\* sep.join(parts)
RECURSIVE JoinWith(_, _)
JoinWith(parts, sep) ==
    IF parts = <<>> THEN <<>>
    ELSE IF Len(parts) = 1 THEN parts[1]
    ELSE parts[1] \o sep \o JoinWith(Tail(parts), sep)

\* str.split(sep) for a one-character sep: never empty, keeps empty pieces
RECURSIVE SplitOn(_, _)
SplitOnAt(s, sep, i) ==
    IF i = 0 THEN <<s>>
    ELSE <<SubSeq(s, 1, i - 1)>> \o SplitOn(DropTo(s, i + 1), sep)

SplitOn(s, sep) == SplitOnAt(s, sep, Find(s, <<sep>>))

\* the first word of a text that starts with a non-space character
RECURSIVE FirstWord(_)
FirstWord(s) ==
    IF s = <<>> \/ Head(s) \in Whitespace THEN <<>>
    ELSE <<Head(s)>> \o FirstWord(Tail(s))

\* str.split(): the runs of non-whitespace characters
RECURSIVE Split(_)
SplitAfter(t, w) == <<w>> \o Split(DropTo(t, Len(w) + 1))

SplitWords(t) == IF t = <<>> THEN <<>> ELSE SplitAfter(t, FirstWord(t))

Split(s) == SplitWords(LStrip(s))

LowerLetters == <<"a","b","c","d","e","f","g","h","i","j","k","l","m",
                  "n","o","p","q","r","s","t","u","v","w","x","y","z">>
UpperLetters == <<"A","B","C","D","E","F","G","H","I","J","K","L","M",
                  "N","O","P","Q","R","S","T","U","V","W","X","Y","Z">>
Lower == Range(LowerLetters)

UpperChar(c) ==
    IF c \in Lower
    THEN UpperLetters[CHOOSE i \in 1..26 : LowerLetters[i] = c]
    ELSE c

\* str.upper()
Upper(s) == [i \in 1..Len(s) |-> UpperChar(s[i])]

Min(a, b) == IF a < b THEN a ELSE b

\* list[:n]
FirstN(s, n) == SubSeq(s, 1, Min(Len(s), n))

\* list[-n:]
LastN(s, n) == SubSeq(s, IF Len(s) > n THEN Len(s) - n + 1 ELSE 1, Len(s))

\* reversed(s)
Reverse(s) == [i \in 1..Len(s) |-> s[Len(s) + 1 - i]]

(***************************************************************************)
(* The session history.                                                    *)
(***************************************************************************)
\* a plain list's append: nothing is ever dropped
DequeAppendUnbounded(h, x) == Append(h, x)

\* deque(maxlen=20).append(x): a full deque drops its oldest entry
DequeAppend(h, x) ==
    IF Len(h) >= HistoryMaxLen THEN Tail(h) \o <<x>> ELSE Append(h, x)

\* run_command's guard:
\*   full_cmd != self.command_history[-1] if self.command_history else True
ShouldAppend(h, full_cmd) ==
    IF h # <<>> THEN full_cmd # Last(h) ELSE TRUE

FileCommands == { <<"t","o","u","c","h">>, <<"m","k","d","i","r">>, <<"c","p">>,
                  <<"m","v">>, <<"v","i","m">>, <<"n","a","n","o">> }

\* the loop of _get_relevant_files_from_history over cmds, files collected so far
RECURSIVE ScanHistory(_, _)
\* files.append(parts[-1]); if len(files) >= 3: break
ScanAppended(cmds, files) ==
    IF Len(files) >= MaxRelevantFiles THEN files ELSE ScanHistory(Tail(cmds), files)

ScanParts(cmds, files, parts) ==
    IF parts # <<>> /\ parts[1] \in FileCommands
    THEN ScanAppended(cmds, Append(files, Last(parts)))
    ELSE ScanHistory(Tail(cmds), files)

ScanHistory(cmds, files) ==
    IF cmds = <<>> THEN files ELSE ScanParts(cmds, files, Split(Head(cmds)))

\* for cmd in reversed(list(self.command_history)[:-1])
GetRelevantFilesFromHistory(h) == ScanHistory(Reverse(AllButLast(h)), <<>>)

(***************************************************************************)
(* _get_full_error_output: merge stderr and stdout, remove the ANSI escape *)
(* sequences  \x1B\[[0-?]*[ -/]*[@-~]  and strip.                          *)
(***************************************************************************)
\* [0-?]
ParamBytes == {"0","1","2","3","4","5","6","7","8","9",":",";","<","=",">","?"}
\* [ -/]
IntermediateBytes == {" ","!",DQT,"#","$","%","&","'","(",")","*","+",",","-",".","/"}
\* [@-~]
FinalBytes == {"@","[",BSL,"]","^","_",BTK,"{","|","}","~"}
                  \cup Range(UpperLetters) \cup Lower

\* the first position from i on whose character is not in class
RECURSIVE SkipClass(_, _, _)
SkipClass(s, i, class) ==
    IF i <= Len(s) /\ s[i] \in class THEN SkipClass(s, i + 1, class) ELSE i

\* [@-~] at position k: k, or 0
FinalAt(s, k) == IF k <= Len(s) /\ s[k] \in FinalBytes THEN k ELSE 0

\* the position of the final byte of an escape sequence starting at i, or 0.
\* The three classes are disjoint, so the greedy match is the only one.
AnsiMatchEnd(s, i) ==
    IF i + 1 <= Len(s) /\ s[i] = ESC /\ s[i + 1] = "["
    THEN FinalAt(s, SkipClass(s, SkipClass(s, i + 2, ParamBytes), IntermediateBytes))
    ELSE 0

\* re.sub(pattern, '', s): one pass, left to right, over non-overlapping matches
RECURSIVE RemoveAnsiFrom(_, _)
RemoveAnsiAt(s, i, e) ==
    IF e # 0 THEN RemoveAnsiFrom(s, e + 1)
    ELSE <<s[i]>> \o RemoveAnsiFrom(s, i + 1)

RemoveAnsiFrom(s, i) ==
    IF i > Len(s) THEN <<>> ELSE RemoveAnsiAt(s, i, AnsiMatchEnd(s, i))

Sanitize(s) == Strip(RemoveAnsiFrom(s, 1))

\* stderr and stdout are texts; None and '' are both falsy and both <<>>
GetFullErrorOutput(stderr, stdout) ==
    Sanitize((IF stderr # <<>> THEN stderr ELSE <<>>)
             \o (IF stdout # <<>> THEN <<NL>> \o stdout ELSE <<>>))

(***************************************************************************)
(* _get_man_page                                                           *)
(***************************************************************************)
NoManualEntry == <<"N","o"," ","m","a","n","u","a","l"," ","e","n","t","r","y"," ","a","v","a","i","l","a","b","l","e">>
ErrorRetrieving == <<"E","r","r","o","r"," ","r","e","t","r","i","e","v","i","n","g"," ","m","a","n","u","a","l"," ","p","a","g","e">>
NoManualEntryMark == <<"N","o"," ","m","a","n","u","a","l"," ","e","n","t","r","y">>

ManHeaders == { <<"N","A","M","E">>, <<"S","Y","N","O","P","S","I","S">>, <<"D","E","S","C","R","I","P","T","I","O","N">> }

\* the for loop over the lines: current_section is None (<<>>) or <<header>>
RECURSIVE ManScan(_, _, _)
\* if len(sections) > 10: break
ManNext(lines, current_section, sections) ==
    IF Len(sections) > ManLimit THEN sections
    ELSE ManScan(Tail(lines), current_section, sections)

ManLine(lines, current_section, sections, line) ==
    IF Upper(line) \in ManHeaders
    THEN ManNext(lines, <<line>>, Append(sections, line))
    ELSE IF current_section # <<>> /\ StartsWith(line, <<" ">>)
    THEN ManNext(lines, current_section, Append(sections, Strip(line)))
    ELSE ManNext(lines, current_section, sections)

ManScan(lines, current_section, sections) ==
    IF lines = <<>> THEN sections
    ELSE ManLine(lines, current_section, sections, Head(lines))

\* subprocess.run('man X 2>/dev/null | col -b', shell=True, capture_output=True):
\* the shell reports the exit status of the last command of the pipeline, and
\* col's input is empty when man prints nothing
RunManPipeline(man) ==
    [raises |-> man.raises,
     returncode |-> man.col_rc,
     stdout |-> IF man.man_rc = 0 THEN man.page ELSE <<>>]

ManExcerpt(result) ==
    IF result.raises THEN ErrorRetrieving
    ELSE IF result.returncode = 0
    THEN JoinWith(ManScan(SplitOn(result.stdout, NL), <<>>, <<>>), <<NL>>)
    ELSE NoManualEntry

GetManPage(man) == ManExcerpt(RunManPipeline(man))

(***************************************************************************)
(* The context collectors of _get_additional_context.                      *)
(***************************************************************************)
EnvAllowList == {"PATH", "SHELL", "USER", "HOME", "PWD", "OLDPWD"}

EmptyDict == [k \in {} |-> <<>>]

\* os.getenv(name, '') for the six names
GetRelevantEnvVars(environ) ==
    [n \in EnvAllowList |-> IF n \in DOMAIN environ THEN environ[n] ELSE ""]

\* check_output raises when ps is missing or exits non-zero
GetProcessTree(ps) ==
    IF ps.raises THEN <<>>
    ELSE LastN(SplitOn(Strip(ps.stdout), NL), ProcessTreeLines)

GetNetworkState(ss) ==
    IF ss.raises THEN <<>>
    ELSE FirstN(SplitOn(Strip(ss.stdout), NL), NetworkLines)

IsFile(e) == e.kind = "file"
IsDir(e) == e.kind = "dir"
Names(entries) == [i \in 1..Len(entries) |-> entries[i].name]

\* os.getcwd() is called before the try block
GetFileContext(cwd_ok, listdir) ==
    IF ~cwd_ok THEN [raised |-> TRUE, value |-> EmptyDict]
    ELSE IF listdir.raises THEN [raised |-> FALSE, value |-> EmptyDict]
    ELSE [raised |-> FALSE,
          value |-> [files |-> FirstN(Names(SelectSeq(listdir.entries, IsFile)), MaxFiles),
                     dirs |-> FirstN(Names(SelectSeq(listdir.entries, IsDir)), MaxDirs)]]

GetGitContext(git) ==
    IF git.raises THEN EmptyDict
    ELSE [git_status |-> git.status, git_remotes |-> git.remotes]

GitPrefix == <<"g","i","t"," ">>

\* dict.update(d): d's entries are added to (and override) those of base
Update(base, d) == d @@ base

\* the dict of the four fragments, and the git context for a git command
ContextOf(cmd, env, file_context) ==
    [raised |-> file_context.raised,
     value |-> Update([env_vars |-> GetRelevantEnvVars(env.environ),
                       process_tree |-> GetProcessTree(env.ps),
                       file_context |-> file_context.value,
                       network_state |-> GetNetworkState(env.ss)],
                      IF StartsWith(cmd, GitPrefix) THEN GetGitContext(env.git)
                      ELSE EmptyDict)]

GetAdditionalContext(cmd, env) ==
    ContextOf(cmd, env, GetFileContext(env.cwd_ok, env.listdir))

(***************************************************************************)
(* _show_analysis: the thinking blocks and the five labeled sections.      *)
(* A thinking marker, a label's emoji and a label's text are one token     *)
(* each; every other token of a response is one character.                 *)
(***************************************************************************)
ThinkOpen == <<"<think>">>
ThinkClose == <<"</think>">>

EmCause == "(magnifier)"
EmFix == "(tools)"
EmExplanation == "(books)"
EmRisk == "(warning)"
EmPrevention == "(lock)"

CauseLabel == <<EmCause, " Root Cause: ">>
FixLabel == <<EmFix, " Fix: ">>
ExplanationLabel == <<EmExplanation, " Technical Explanation: ">>
RiskLabel == <<EmRisk, " Potential Risks: ">>
PreventionLabel == <<EmPrevention, " Prevention Tip: ">>

\* the while loop: thoughts collected so far, text remaining
RECURSIVE ExtractThoughts(_, _)
\* thoughts.append(remaining[think_start:think_end].strip())
\* remaining = remaining[think_end + len('</think>'):]
TakeThought(thoughts, remaining, think_start, think_end) ==
    ExtractThoughts(
        Append(thoughts,
               Strip(IF think_start < think_end
                     THEN SubSeq(remaining, think_start, think_end - 1)
                     ELSE <<>>)),
        DropTo(remaining, think_end + Len(ThinkClose)))

ExtractThoughts(thoughts, remaining) ==
    IF Contains(remaining, ThinkOpen) /\ Contains(remaining, ThinkClose)
    THEN TakeThought(thoughts, remaining,
                     Find(remaining, ThinkOpen) + Len(ThinkOpen),
                     Find(remaining, ThinkClose))
    ELSE [thoughts |-> thoughts, remaining |-> remaining]

\* $ without re.MULTILINE: the end of the text, or just before a final newline
AtDollar(s, i) == i > Len(s) \/ (i = Len(s) /\ s[i] = NL)

\* the lookahead (?=t1|t2|...|$) at position i
AtTerminator(s, i, terminators) ==
    \/ \E t \in terminators : MatchAt(s, t, i)
    \/ AtDollar(s, i)

\* (.+?) from position c: the last position of the shortest non-empty match
RECURSIVE LazyEnd(_, _, _)
LazyEnd(s, e, terminators) ==
    IF AtTerminator(s, e + 1, terminators) THEN e
    ELSE LazyEnd(s, e + 1, terminators)

\* the label found at i (0: not found), its content starting at c
SectionAt(s, terminators, i, c) ==
    IF i = 0 \/ c > Len(s) THEN <<>>
    ELSE <<SubSeq(s, c, LazyEnd(s, c, terminators))>>

\* re.search(label + '(.+?)(?=...)', s, re.DOTALL).group(1), or <<>> for no match
SearchSection(s, label, terminators) ==
    SectionAt(s, terminators, Find(s, label), Find(s, label) + Len(label))

\* the number of backticks at position i and on
RECURSIVE TickRun(_, _)
TickRun(s, i) ==
    IF i <= Len(s) /\ s[i] = BTK THEN 1 + TickRun(s, i + 1) ELSE 0

\* the closing `{1,3} at q, the first backtick after the opening ones (0: none)
ClosingEnd(s, q) == IF q = 0 THEN 0 ELSE q + Min(3, TickRun(s, q)) - 1

\* `{1,3}(.*?)`{1,3} at c with n opening backticks: the last position matched, or 0
FencedEnd(s, c, n) == ClosingEnd(s, FindFrom(s, <<BTK>>, c + n))

\* the opening `{1,3} is greedy and gives backticks back one at a time
RECURSIVE FencedTry(_, _, _)
FencedOr(s, c, n, end) == IF end # 0 THEN end ELSE FencedTry(s, c, n - 1)

FencedTry(s, c, n) == IF n = 0 THEN 0 ELSE FencedOr(s, c, n, FencedEnd(s, c, n))

\* [^\n]+ at c: the last position matched, or 0
RECURSIVE LineEnd(_, _)
LineEnd(s, c) ==
    IF c > Len(s) \/ s[c] = NL THEN 0
    ELSE IF c + 1 > Len(s) \/ s[c + 1] = NL THEN c
    ELSE LineEnd(s, c + 1)

FencedElseLine(s, c, fenced) == IF fenced # 0 THEN fenced ELSE LineEnd(s, c)

\* (`{1,3}(.*?)`{1,3}|([^\n]+)) at c: the last position matched, or 0
FixGroupEnd(s, c) == FencedElseLine(s, c, FencedTry(s, c, Min(3, TickRun(s, c))))

\* re.search: the leftmost occurrence of the label after which the group matches
RECURSIVE SearchFixFrom(_, _)
FixGroupAt(s, i, c, end) ==
    IF end # 0 THEN <<SubSeq(s, c, end)>> ELSE SearchFixFrom(s, i + 1)

FixAt(s, i) ==
    IF i = 0 THEN <<>>
    ELSE FixGroupAt(s, i, i + Len(FixLabel), FixGroupEnd(s, i + Len(FixLabel)))

SearchFixFrom(s, from) == FixAt(s, FindFrom(s, FixLabel, from))

RECURSIVE LStripTicks(_)
LStripTicks(s) == IF s # <<>> /\ Head(s) = BTK THEN LStripTicks(Tail(s)) ELSE s

RECURSIVE RStripTicks(_)
RStripTicks(s) == IF s # <<>> /\ Last(s) = BTK THEN RStripTicks(AllButLast(s)) ELSE s

\* str.strip('`')
StripTicks(s) == RStripTicks(LStripTicks(s))

\* the components dict: each entry None (<<>>) or <<group(1)>>
Components(remaining) ==
    [cause |-> SearchSection(remaining, CauseLabel,
                   { <<NL, EmFix>>, <<NL, EmExplanation>>, <<NL, EmRisk>>,
                     <<NL, EmPrevention>> }),
     fix |-> SearchFixFrom(remaining, 1),
     explanation |-> SearchSection(remaining, ExplanationLabel,
                   { <<NL, EmRisk>>, <<NL, EmPrevention>> }),
     risk |-> SearchSection(remaining, RiskLabel, { <<NL, EmPrevention>> }),
     prevention |-> SearchSection(remaining, PreventionLabel, { <<NL>> })]

\* fix_command = components['fix'].group(1).strip('`')
FixCommand(fix) == IF fix # <<>> THEN <<StripTicks(fix[1])>> ELSE <<>>

\* what is displayed: the thoughts, the four group(1) texts and the fix command
Extracted(thoughts, components) ==
    [shown |-> TRUE,
     thoughts |-> thoughts,
     cause |-> components.cause,
     fix |-> FixCommand(components.fix),
     explanation |-> components.explanation,
     risk |-> components.risk,
     prevention |-> components.prevention]

AfterThoughts(t) == Extracted(t.thoughts, Components(t.remaining))

ParseResponse(solution) == AfterThoughts(ExtractThoughts(<<>>, solution))

NotParsed ==
    [shown |-> FALSE, thoughts |-> <<>>, cause |-> <<>>, fix |-> <<>>,
     explanation |-> <<>>, risk |-> <<>>, prevention |-> <<>>]

\* context.get(key) is truthy
Truthy(context, key) == key \in DOMAIN context /\ context[key] # <<>>

\* the panels _show_analysis prints, in order
Panels(p, context) ==
    <<"header">>
    \o (IF p.thoughts # <<>> THEN <<"thoughts">> ELSE <<>>)
    \o (IF context["history"] # <<>> THEN <<"recent">> ELSE <<>>)
    \o (IF Truthy(context, "relevant_files") THEN <<"files">> ELSE <<>>)
    \o (IF Truthy(context, "man_excerpt")
           /\ ~Contains(context["man_excerpt"], NoManualEntryMark)
        THEN <<"manual">> ELSE <<>>)
    \o (IF p.cause # <<>> \/ p.explanation # <<>> THEN <<"diagnosis">> ELSE <<>>)
    \o (IF p.fix # <<>> THEN <<"fix">> ELSE <<>>)
    \o (IF p.risk # <<>> \/ p.prevention # <<>> THEN <<"info">> ELSE <<>>)

Shown(p, context) == [parsed |-> p, rendered |-> Panels(p, context)]

ShowAnalysis(solution, context) == Shown(ParseResponse(solution), context)

(***************************************************************************)
(* _handle_error                                                           *)
(***************************************************************************)
Cwd == "/home/user/project"

\* error_context['man_excerpt'] = self._get_man_page(base_cmd), for a command
\* with at least one word
WithManExcerpt(error_context, parts, env) ==
    IF Len(parts) > 0
    THEN Update(error_context, [man_excerpt |-> GetManPage(env.man)])
    ELSE error_context

\* the error_context dict as it is handed to the reasoning service
ErrorContext(cmd, history, result, context, env) ==
    WithManExcerpt(
        Update([command |-> cmd,
                error_output |-> GetFullErrorOutput(result.stderr, result.stdout),
                cwd |-> Cwd,
                exit_code |-> result.returncode,
                history |-> history,
                relevant_files |-> GetRelevantFilesFromHistory(history)],
               context),
        Split(cmd), env)

AnalysisDone(error_context, show) ==
    [raised |-> FALSE, submitted |-> <<error_context>>,
     rendered |-> <<"analyzing">> \o show.rendered, parsed |-> show.parsed]

\* solution: None (<<>>) or <<text>>, the reasoning service's answer
Analyze(error_context, solution) ==
    IF solution # <<>> /\ solution[1] # <<>>
    THEN AnalysisDone(error_context, ShowAnalysis(solution[1], error_context))
    ELSE [raised |-> FALSE, submitted |-> <<error_context>>,
          rendered |-> <<"analyzing", "notice">>, parsed |-> NotParsed]

\* result: [returncode, stderr, stdout]; env: what the surroundings return during
\* this pass
HandleError(cmd, history, result, context, env, solution) ==
    IF ~env.cwd_ok   \* os.getcwd() raises while the dict is built
    THEN [raised |-> TRUE, submitted |-> <<>>, rendered |-> <<>>, parsed |-> NotParsed]
    ELSE Analyze(ErrorContext(cmd, history, result, context, env), solution)

(***************************************************************************)
(* What the surroundings (the child process, the host's tools, the         *)
(* reasoning service) can return.                                          *)
(***************************************************************************)
\* argument lists handed to run_command
ArgvLs == <<<<"l","s">>, <<"/","x">>>>
ArgvTouch == <<<<"t","o","u","c","h">>, <<"a">>>>
ArgvGit == <<<<"g","i","t">>, <<"s","t">>>>

\* run_command: full_cmd = ' '.join(command)
FullCmd(argv) == JoinWith(argv, <<" ">>)

Argvs == {ArgvLs, ArgvTouch, ArgvGit}
AutoCommands == {FullCmd(a) : a \in Argvs}

\* the lines "a", "b", ... of a tool's output
OutputLines(n) == JoinWith([i \in 1..n |-> <<LowerLetters[i]>>], <<NL>>) \o <<NL>>

Entries(nfiles, ndirs) ==
    [i \in 1..(nfiles + ndirs) |->
        IF i <= nfiles THEN [name |-> <<"f", i>>, kind |-> "file"]
        ELSE [name |-> <<"d", i - nfiles>>, kind |-> "dir"]]

\* a manual page: a NAME header followed by n indented lines
ManPage(n) ==
    JoinWith(<<<<"N","A","M","E">>>> \o [i \in 1..n |-> <<" ", LowerLetters[i]>>] \o <<<<>>>>,
             <<NL>>)

Nominal ==
    [cwd_ok |-> TRUE,
     environ |-> [PATH |-> "/bin", SHELL |-> "/bin/sh", USER |-> "u", HOME |-> "/home/u",
                  PWD |-> "/w", OLDPWD |-> "/", API_KEY |-> "secret"],
     ps |-> [raises |-> FALSE, stdout |-> OutputLines(3)],
     ss |-> [raises |-> FALSE, stdout |-> OutputLines(2)],
     listdir |-> [raises |-> FALSE, entries |-> Entries(2, 1)],
     git |-> [raises |-> FALSE, status |-> "M f", remotes |-> "origin"],
     man |-> [raises |-> FALSE, man_rc |-> 0, col_rc |-> 0, page |-> ManPage(2)]]

\* the manual lookup going wrong: the call raising, man missing (127) or without
\* an entry (16), col missing
ManFailures ==
    { [raises |-> TRUE, man_rc |-> 0, col_rc |-> 0, page |-> <<>>],
      [raises |-> FALSE, man_rc |-> 127, col_rc |-> 0, page |-> <<>>],
      [raises |-> FALSE, man_rc |-> 16, col_rc |-> 0, page |-> <<>>],
      [raises |-> FALSE, man_rc |-> 0, col_rc |-> 127, page |-> ManPage(2)] }

\* the surroundings of an auto_analyze pass, which uses the working directory
\* and the manual only: all is well, or one source fails or is verbose
AutoEnvs ==
    {Nominal, [Nominal EXCEPT !.cwd_ok = FALSE],
     [Nominal EXCEPT !.man.page = ManPage(12)]}
    \cup {[Nominal EXCEPT !.man = m] : m \in ManFailures}

\* the surroundings of a run_command pass
Envs ==
    AutoEnvs
    \cup { [Nominal EXCEPT !.environ = [PATH |-> "/bin"]],
           [Nominal EXCEPT !.ps.raises = TRUE],
           [Nominal EXCEPT !.ps.stdout = OutputLines(12)],
           [Nominal EXCEPT !.ss.raises = TRUE],
           [Nominal EXCEPT !.ss.stdout = OutputLines(7)],
           [Nominal EXCEPT !.listdir.raises = TRUE],
           [Nominal EXCEPT !.listdir.entries = Entries(12, 6)],
           [Nominal EXCEPT !.git.raises = TRUE] }

\* the reasoning service's answers: None, '', a text without any label, and a
\* text with one thought and the five sections
NoSolution == <<>>
EmptySolution == << <<>> >>
MalformedSolution == << <<"n","o"," ","i","d","e","a">> >>
FullSolution ==
    << ThinkOpen \o <<"h","m">> \o ThinkClose \o <<NL>>
       \o CauseLabel \o <<"a">> \o <<NL>>
       \o FixLabel \o <<BTK, "l", "s", BTK>> \o <<NL>>
       \o ExplanationLabel \o <<"b">> \o <<NL>>
       \o RiskLabel \o <<"c">> \o <<NL>>
       \o PreventionLabel \o <<"d">> >>

Solutions == {NoSolution, EmptySolution, MalformedSolution, FullSolution}

\* _get_native_error: the stderr of the re-run command, stripped
CommandExecutionFailed == <<"C","o","m","m","a","n","d"," ","e","x","e","c","u","t","i","o","n"," ","f","a","i","l","e","d">>

GetNativeError(native) ==
    IF native.raises THEN CommandExecutionFailed ELSE Strip(native.stderr)

NativeRaises == [raises |-> TRUE, stderr |-> <<>>]
NativeOk ==
    [raises |-> FALSE,
     stderr |-> <<ESC, "[", "3", "1", "m", "n", "o", ESC, "[", "0", "m", NL>>]

(***************************************************************************)
(* The entry points.                                                       *)
(***************************************************************************)
NoCall == [op |-> "none"]
NoOutcome == [kind |-> "none", code |-> 0]
SystemExit(code) == [kind |-> "SystemExit", code |-> code]
Returned == [kind |-> "return", code |-> 0]
Raised == [kind |-> "raise", code |-> 0]

NotHandled ==
    [raised |-> FALSE, submitted |-> <<>>, rendered |-> <<>>, parsed |-> NotParsed]

Count(n) == IF n < MaxSubmits THEN n + 1 ELSE n

\* the end of run_command: sys.exit(result.returncode), or the except clause
\* (caught) printing "Execution Error" and sys.exit(1)
RunEnd(full_cmd, history, cache, handled, caught, returncode) ==
    /\ last_command' = full_cmd
    /\ command_history' = history
    /\ context_cache' = cache
    /\ submitted' = handled.submitted
    /\ parsed' = handled.parsed
    /\ rendered' = handled.rendered \o (IF caught THEN <<"execution_error">> ELSE <<>>)
    /\ outcome' = IF caught THEN SystemExit(1) ELSE SystemExit(returncode)

\* self.context_cache = self._get_additional_context()
\* self._handle_error(result, self.context_cache)
RunDiagnose(full_cmd, history, returncode, env, solution, context) ==
    IF context.raised
    THEN RunEnd(full_cmd, history, context_cache, NotHandled, TRUE, returncode)
    ELSE RunEnd(full_cmd, history, context.value,
                \* stdin, stdout and stderr are inherited: nothing is captured
                HandleError(full_cmd, history,
                            [returncode |-> returncode, stderr |-> <<>>, stdout |-> <<>>],
                            context.value, env, solution),
                HandleError(full_cmd, history,
                            [returncode |-> returncode, stderr |-> <<>>, stdout |-> <<>>],
                            context.value, env, solution).raised,
                returncode)

\* result = subprocess.run(...); if result.returncode != 0: ...
RunChild(full_cmd, history, spawn_ok, returncode, env, solution) ==
    IF ~spawn_ok
    THEN RunEnd(full_cmd, history, context_cache, NotHandled, TRUE, returncode)
    ELSE IF returncode # 0
    THEN RunDiagnose(full_cmd, history, returncode, env, solution,
                     GetAdditionalContext(full_cmd, env))
    ELSE RunEnd(full_cmd, history, context_cache, NotHandled, FALSE, returncode)

\* self.last_command = full_cmd; if <guard>: self.command_history.append(full_cmd)
RunSubmit(full_cmd, spawn_ok, returncode, env, solution) ==
    RunChild(full_cmd,
             IF ShouldAppend(command_history, full_cmd)
             THEN DequeAppend(command_history, full_cmd)
             ELSE command_history,
             spawn_ok, returncode, env, solution)

\* run_command(command): spawn_ok is whether subprocess.run could launch the
\* shell, returncode the child's exit code
RunCommand(argv, spawn_ok, returncode, env, solution) ==
    /\ RunSubmit(FullCmd(argv), spawn_ok, returncode, env, solution)
    /\ call' = [op |-> "run_command", cmd |-> FullCmd(argv), spawn_ok |-> spawn_ok,
                returncode |-> returncode, env |-> env, solution |-> solution]
    /\ submits' = Count(submits)
    /\ UNCHANGED <<response, raw, clean>>

AutoEnd(command, history, handled) ==
    /\ last_command' = command
    /\ command_history' = history
    /\ context_cache' = context_cache
    /\ submitted' = handled.submitted
    /\ parsed' = handled.parsed
    /\ rendered' = handled.rendered
    /\ outcome' = IF handled.raised THEN Raised ELSE Returned

AutoHandle(command, history, exit_code, native, env, solution) ==
    AutoEnd(command, history,
            HandleError(command, history,
                        [returncode |-> exit_code, stderr |-> GetNativeError(native),
                         stdout |-> <<>>],
                        context_cache, env, solution))

\* auto_analyze(command, exit_code): native is what re-running the command gives
AutoAnalyze(command, exit_code, native, env, solution) ==
    /\ AutoHandle(command, DequeAppend(command_history, command), exit_code, native,
                  env, solution)
    /\ call' = [op |-> "auto_analyze", cmd |-> command, spawn_ok |-> TRUE,
                returncode |-> exit_code, env |-> env, solution |-> solution]
    /\ submits' = Count(submits)
    /\ UNCHANGED <<response, raw, clean>>

NoResponse == [thoughts |-> <<>>, sections |-> EmptyDict, text |-> <<>>]

\* the state after ErrorInterceptor(), before any call
Constructed ==
    /\ command_history = <<>>
    /\ last_command = <<>>
    /\ context_cache = EmptyDict
    /\ call = NoCall
    /\ submitted = <<>>
    /\ rendered = <<>>
    /\ outcome = NoOutcome
    /\ submits = 0

Init ==
    /\ Constructed
    /\ response = NoResponse
    /\ parsed = NotParsed
    /\ raw = <<>>
    /\ clean = <<>>

\* one run_command call's surroundings: the shell cannot be launched, the child
\* succeeds, or it fails (with 2) and either one source of context deviates or
\* the reasoning service's answer does
RunScenarios ==
    { [spawn_ok |-> FALSE, returncode |-> 0, env |-> Nominal, solution |-> NoSolution],
      [spawn_ok |-> TRUE, returncode |-> 0, env |-> Nominal, solution |-> NoSolution] }
    \cup { [spawn_ok |-> TRUE, returncode |-> 2, env |-> e, solution |-> FullSolution] :
             e \in Envs }
    \cup { [spawn_ok |-> TRUE, returncode |-> 2, env |-> Nominal, solution |-> sol] :
             sol \in Solutions }

\* one auto_analyze call's surroundings
AutoScenarios ==
    { [native |-> NativeOk, env |-> e, solution |-> FullSolution] : e \in AutoEnvs }
    \cup { [native |-> NativeOk, env |-> Nominal, solution |-> sol] : sol \in Solutions }
    \cup { [native |-> NativeRaises, env |-> Nominal, solution |-> FullSolution] }

RunCommandAct ==
    /\ submits < MaxSubmits
    /\ \E argv \in Argvs, sc \in RunScenarios :
        RunCommand(argv, sc.spawn_ok, sc.returncode, sc.env, sc.solution)

AutoAnalyzeAct ==
    /\ submits < MaxSubmits
    /\ \E command \in AutoCommands, sc \in AutoScenarios :
        AutoAnalyze(command, 2, sc.native, sc.env, sc.solution)

Next == RunCommandAct \/ AutoAnalyzeAct

Spec == Init /\ [][Next]_vars

(***************************************************************************)
(* The session history on its own: any number of submissions of two        *)
(* commands, one through each entry point, so that the deque fills up and  *)
(* evicts.                                                                 *)
(***************************************************************************)
RunCommandHistoryAct ==
    \E spawn_ok \in BOOLEAN :
        RunCommand(ArgvLs, spawn_ok, 0, Nominal, NoSolution)

AutoAnalyzeHistoryAct ==
    AutoAnalyze(FullCmd(ArgvTouch), 2, NativeOk, Nominal, NoSolution)

NextHistory == RunCommandHistoryAct \/ AutoAnalyzeHistoryAct

SpecHistory == Init /\ [][NextHistory]_vars

(***************************************************************************)
(* _get_full_error_output on its own: every text over the characters of an *)
(* escape sequence, sanitized and then sanitized again.                    *)
(***************************************************************************)
SanitizeAlphabet == {ESC, "[", "0", " ", "m"}

Texts == UNION {[1..n -> SanitizeAlphabet] : n \in 0..MaxTextLen}

InitSanitize ==
    /\ Constructed
    /\ response = NoResponse
    /\ parsed = NotParsed
    /\ raw \in Texts
    /\ clean = <<>>

\* _get_full_error_output(result) with result.stderr the raw text the first
\* time and the previous output the second time, and result.stdout = ''
GetFullErrorOutputAct ==
    /\ Len(clean) < 2
    /\ clean' = Append(clean,
                       GetFullErrorOutput(IF clean = <<>> THEN raw ELSE Last(clean), <<>>))
    /\ UNCHANGED <<command_history, last_command, context_cache, call, submitted,
                   rendered, outcome, submits, response, parsed, raw>>

SpecSanitize == InitSanitize /\ [][GetFullErrorOutputAct]_vars

(***************************************************************************)
(* _show_analysis on its own: every response made of up to MaxThoughts     *)
(* thinking blocks followed by a subset of the five sections in canonical  *)
(* order, one block or section per line.                                   *)
(***************************************************************************)
ThoughtTexts == { <<"h">>, <<"h", NL, "i">> }

ThoughtLists == UNION {[1..n -> ThoughtTexts] : n \in 0..MaxThoughts}

SectionNames == <<"cause", "fix", "explanation", "risk", "prevention">>

SectionTexts == { <<"x">>, <<"x", NL, "y">> }

\* the contents of the sections a response includes
SectionChoices == UNION {[S -> SectionTexts] : S \in SUBSET Range(SectionNames)}

Label(name) ==
    CASE name = "cause" -> CauseLabel
      [] name = "fix" -> FixLabel
      [] name = "explanation" -> ExplanationLabel
      [] name = "risk" -> RiskLabel
      [] name = "prevention" -> PreventionLabel

Included(sections, name) == name \in DOMAIN sections

SectionBlocks(sections, present) ==
    [i \in 1..Len(present) |-> Label(present[i]) \o sections[present[i]]]

ThoughtBlocks(thoughts) ==
    [i \in 1..Len(thoughts) |-> ThinkOpen \o thoughts[i] \o ThinkClose]

ResponseText(thoughts, sections) ==
    JoinWith(ThoughtBlocks(thoughts)
             \o SectionBlocks(sections,
                              SelectSeq(SectionNames, LAMBDA n : Included(sections, n))),
             <<NL>>)

Responses ==
    { [thoughts |-> t, sections |-> s, text |-> ResponseText(t, s)] :
        t \in ThoughtLists, s \in SectionChoices }

\* the bundle _show_analysis is given along with the response
ParserContext == [history |-> <<FullCmd(ArgvLs)>>]

InitParser ==
    /\ Constructed
    /\ response \in Responses
    /\ parsed = NotParsed
    /\ raw = <<>>
    /\ clean = <<>>

ShowAnalysisEnd(show) ==
    /\ parsed' = show.parsed
    /\ rendered' = show.rendered
    /\ UNCHANGED <<command_history, last_command, context_cache, call, submitted,
                   outcome, submits, response, raw, clean>>

\* self._show_analysis(solution, error_context)
ShowAnalysisAct ==
    /\ ~parsed.shown
    /\ ShowAnalysisEnd(ShowAnalysis(response.text, ParserContext))

SpecParser == InitParser /\ [][ShowAnalysisAct]_vars

(***************************************************************************)
(* The claims.                                                             *)
(***************************************************************************)
\* the last call reached the failure handling: auto_analyze always does,
\* run_command when the child was launched and exited with a non-zero code
HandlingPass ==
    \/ call.op = "auto_analyze"
    \/ (call.op = "run_command" /\ call.spawn_ok /\ call.returncode # 0)

\* C1: after any sequence of submissions through run_command and auto_analyze
\* the session history holds at most 20 entries and its last element is the
\* most recently submitted command.
HistoryBoundedAndCurrent ==
    /\ Len(command_history) <= HistoryMaxLen
    /\ (call.op # "none") =>
          (command_history # <<>> /\ Last(command_history) = call.cmd)

\* C1 witness: the history is at capacity, its last entry was submitted through
\* run_command and the entry before it through auto_analyze.
HistoryFullWitness ==
    /\ Len(command_history) = HistoryMaxLen
    /\ call.op = "run_command"
    /\ Last(command_history) = FullCmd(ArgvLs)
    /\ command_history[HistoryMaxLen - 1] = FullCmd(ArgvTouch)

\* C2: whichever entry point the submissions come through, no two adjacent
\* entries of the session history are equal.
NoAdjacentDuplicates ==
    \A i \in 1..(Len(command_history) - 1) :
        command_history[i] # command_history[i + 1]

\* C3: when run_command's child exits with a non-zero code c the process exits
\* with c whatever happens during the diagnosis, and "Execution Error" with
\* exit code 1 is reached only when the command could not be spawned.
ChildExitCodeReported ==
    (call.op = "run_command") =>
        /\ (call.spawn_ok /\ call.returncode # 0) =>
              outcome = SystemExit(call.returncode)
        /\ ("execution_error" \in Range(rendered)) => ~call.spawn_ok

\* C4: a single context source failing during a failure-handling pass (the
\* working-directory lookup included) never aborts the assembly: the bundle is
\* still assembled and submitted to the reasoning service.
ContextFailureAbsorbed ==
    HandlingPass => (Len(submitted) = 1 /\ outcome # Raised /\ outcome # SystemExit(1))

\* the manual lookup failed: the call raised, or man or col exited non-zero
\* (127 when the tool is absent)
ManLookupFailed(man) == man.raises \/ man.man_rc # 0 \/ man.col_rc # 0

\* C5: whenever the manual-page lookup fails (tool absent, non-zero exit, or
\* the lookup raising) the bundle's man_excerpt is the sentinel "No manual
\* entry available" and the manual-reference panel is not rendered.
ManFailureGivesSentinel ==
    (HandlingPass /\ submitted # <<>> /\ ManLookupFailed(call.env.man)) =>
        /\ submitted[1]["man_excerpt"] = NoManualEntry
        /\ "manual" \notin Range(rendered)

\* C6: parser round trip.  For a response built from thought segments followed
\* by a subset of the five sections in canonical order, multi-line contents
\* included, parsing recovers exactly the thought segments in order and each
\* included section's content (trimmed), and a section not included is absent.
ParserRoundTrip ==
    parsed.shown =>
        /\ parsed.thoughts =
              [i \in 1..Len(response.thoughts) |-> Strip(response.thoughts[i])]
        /\ \A n \in Range(SectionNames) :
              parsed[n] = IF n \in DOMAIN response.sections
                          THEN <<Strip(response.sections[n])>>
                          ELSE <<>>

\* C7: sanitization is idempotent: sanitizing the sanitized text yields the
\* same text.
SanitizeIdempotent == (Len(clean) = 2) => (clean[2] = clean[1])

Labels == {CauseLabel, FixLabel, ExplanationLabel, RiskLabel, PreventionLabel}

\* no response, an empty response, or a response with none of the five labels
Unusable(solution) ==
    \/ solution = <<>>
    \/ solution[1] = <<>>
    \/ \A l \in Labels : ~Contains(solution[1], l)

AnalysisParts ==
    {"header", "thoughts", "recent", "files", "manual", "diagnosis", "fix", "info"}

IsNotice(r) == r = "notice"

\* C8: when the reasoning service yields no usable response (none, empty, or
\* malformed with none of the five labels) the plain failure notice is shown
\* once and no part of the analysis is rendered.
NoUsableResponseGivesNotice ==
    (HandlingPass /\ submitted # <<>> /\ Unusable(call.solution)) =>
        /\ Len(SelectSeq(rendered, IsNotice)) = 1
        /\ Range(rendered) \cap AnalysisParts = {}

\* a manual excerpt that is neither empty nor one of the two placeholders
RealExcerpt(b) ==
    /\ "man_excerpt" \in DOMAIN b
    /\ b["man_excerpt"] \notin {<<>>, NoManualEntry, ErrorRetrieving}

WithinLimits(b) ==
    /\ Len(b["history"]) <= HistoryMaxLen
    /\ Len(b["relevant_files"]) <= MaxRelevantFiles
    /\ ("process_tree" \in DOMAIN b) => Len(b["process_tree"]) <= ProcessTreeLines
    /\ ("network_state" \in DOMAIN b) => Len(b["network_state"]) <= NetworkLines
    /\ ("file_context" \in DOMAIN b /\ "files" \in DOMAIN b["file_context"]) =>
          /\ Len(b["file_context"]["files"]) <= MaxFiles
          /\ Len(b["file_context"]["dirs"]) <= MaxDirs
    /\ RealExcerpt(b) => Len(SplitOn(b["man_excerpt"], NL)) <= ManLimit

\* C9: every bounded field of an assembled bundle respects its limit: history
\* 20, relevant_files 3, process tree 10 lines, network state 5 lines, file
\* context 10 files and 5 directories, a real manual excerpt 10 lines.
BundleWithinLimits == \A i \in 1..Len(submitted) : WithinLimits(submitted[i])

FreshFragments == {"env_vars", "process_tree", "file_context", "network_state"}

\* C10: in both entry paths the submitted bundle contains the env_vars,
\* process_tree, file_context and network_state fragments as collected during
\* this failure's handling pass, neither missing nor reused from earlier.
BundleIsFresh ==
    (HandlingPass /\ submitted # <<>>) =>
        \A k \in FreshFragments :
            /\ k \in DOMAIN submitted[1]
            /\ submitted[1][k] = GetAdditionalContext(call.cmd, call.env).value[k]

====
